---- MODULE Spec2Model ----
(***************************************************************************)
(* Model of app/main.py of the OpenAI-to-AssemblyAI proxy: the handler     *)
(* create_transcription, one request at a time.  Every step of the handler *)
(* that ends at a blocking or external call is one action.  Strings the    *)
(* code slices, lower-cases or searches are sequences of one-character     *)
(* strings; every other value is a TLA+ string, Python's None being "None".*)
(***************************************************************************)
EXTENDS Integers, Sequences, FiniteSets, TLC

VARIABLES pc, req, api_key, client, final_audio_url, config_dict,
          speech_model, base_params, assemblyai_request, calls, ran,
          failure, response

vars == <<pc, req, api_key, client, final_audio_url, config_dict,
          speech_model, base_params, assemblyai_request, calls, ran,
          failure, response>>

(* ------------------------------ bounds --------------------------------- *)
\* largest number of fragments a provider failure message is made of
MaxParts == 2
\* largest number of keys the parsed prompt configuration holds
MaxCfgKeys == 2

(* --------------------------- string helpers ---------------------------- *)
\* Python's None for values that are character sequences
NoneSeq == <<"None">>
\* Python's None for every other value
None == "None"

\* str.lower() on one character
LowerChar(c) ==
  CASE c = "A" -> "a" [] c = "B" -> "b" [] c = "D" -> "d" [] c = "F" -> "f"
    [] c = "I" -> "i" [] c = "L" -> "l" [] c = "N" -> "n" [] c = "R" -> "r"
    [] c = "T" -> "t" [] c = "U" -> "u" [] c = "V" -> "v"
    [] OTHER -> c

\* str.lower()
Lower(s) == [i \in 1..Len(s) |-> LowerChar(s[i])]

\* the operator `sub in s` on strings
In(sub, s) ==
  \E i \in 1..(Len(s) - Len(sub) + 1) : SubSeq(s, i, i + Len(sub) - 1) = sub

\* str.startswith
StartsWith(s, p) == Len(s) >= Len(p) /\ SubSeq(s, 1, Len(p)) = p

\* the slice s[n:]
SliceFrom(s, n) == SubSeq(s, n + 1, Len(s))

\* truth value of an optional character sequence
TruthySeq(s) == s # NoneSeq /\ s # <<>>

\* truth value of an optional string
Truthy(s) == s # None /\ s # ""

\* dict.get(k, default)
Get(d, k, default) == IF k \in DOMAIN d THEN d[k] ELSE default

\* concatenation of a sequence of character sequences
RECURSIVE Concat(_)
Concat(parts) ==
  IF parts = <<>> THEN <<>> ELSE Head(parts) \o Concat(Tail(parts))

\* all sequences over S of length at most n
RECURSIVE SeqsUpTo(_, _)
SeqsUpTo(S, n) ==
  IF n = 0 THEN {<<>>}
  ELSE LET shorter == SeqsUpTo(S, n - 1)
       IN  shorter \cup {Append(q, x) : q \in shorter, x \in S}

(* ------------------------------- inputs -------------------------------- *)
BearerPrefix == <<"B", "e", "a", "r", "e", "r", " ">>
KeyText == <<"s", "k", "-", "1">>

\* values of request.headers.get("authorization")
AuthHeaders ==
  { NoneSeq, <<>>, BearerPrefix, BearerPrefix \o KeyText, KeyText }

UploadedFile == "a.mp3"
Files == {None, UploadedFile}
GoodUrl == "https://x.com/a.mp3"
BadUrl == "ftp://x.com/a.txt"
AudioUrls == {None, "", GoodUrl, BadUrl}
Models == {"", "whisper-1", "invalid-model-xyz"}
Languages == {None, "EN"}
Prompts == {None, "prompt"}
ResponseFormats == {"json", "text"}

Requests ==
  [auth_header : AuthHeaders, file : Files, audio_url : AudioUrls,
   model : Models, language : Languages, prompt : Prompts,
   response_format : ResponseFormats]

NoRequest ==
  [auth_header |-> NoneSeq, file |-> None, audio_url |-> None, model |-> "",
   language |-> None, prompt |-> None, response_format |-> "json"]

\* fragments of the messages the provider client raises
Fragments ==
  { <<"T", "i", "m", "e", "o", "u", "t", " ", "w", "h", "i", "l", "e", " ">>,
    <<"u", "n", "a", "u", "t", "h", "o", "r", "i", "z", "e", "d">>,
    <<"I", "N", "V", "A", "L", "I", "D", " ">>,
    <<"B", "a", "d", " ", "R", "e", "q", "u", "e", "s", "t", " ">>,
    <<"N", "o", "t", " ", "F", "o", "u", "n", "d">>,
    <<"e", "r", "r", "o", "r">> }

\* str(e) of the failures client.transcribe raises
ProviderMessages == {Concat(parts) : parts \in SeqsUpTo(Fragments, MaxParts)}

\* str(e) of every other failure
Boom == <<"b", "o", "o", "m">>

(* ------------------- collaborators outside app/main.py ----------------- *)
SpeechModels == {"best", "slam-1", "universal"}

\* the results the model mapper may return for an identifier
map_openai_model_to_speech_model(model) ==
  IF model \in SpeechModels THEN {model}
  ELSE IF model = "whisper-1" THEN {"best"}
  ELSE IF model = "" THEN {None, "best"}
  ELSE {None}

map_language_code(language) ==
  IF language = None THEN None ELSE "en"

validate_audio_url(url) == url = GoodUrl

ConfigKeys ==
  {"audio_url", "speech_model", "speaker_labels", "auto_chapters"}

ConfigValues(k) ==
  CASE k = "audio_url" -> {None, "https://cfg.example/b.wav"}
    [] k = "speech_model" -> {None, "universal"}
    [] k = "speaker_labels" -> {None, "true"}
    [] OTHER -> {None, "true"}

ConfigDicts ==
  UNION { {d \in [K -> UNION {ConfigValues(k) : k \in K}] :
             \A k \in K : d[k] \in ConfigValues(k)} :
          K \in {S \in SUBSET ConfigKeys : Cardinality(S) <= MaxCfgKeys} }

\* the (config_dict, cleaned_prompt) pairs the prompt parser may return
parse_prompt_for_config(prompt) ==
  IF prompt = None THEN {<<<<>>, None>>}
  ELSE {<<d, c>> : d \in ConfigDicts, c \in {"hello, world"}}

parse_word_boost(cleaned_prompt) ==
  IF Truthy(cleaned_prompt) THEN "[hello, world]" ELSE "[]"

\* format_openai_error(message, error_type, code=None) as an HTTP response;
\* the message is a fixed text followed by an interpolated failure text
format_openai_error(status, text, exc, error_type, code) ==
  [status |-> status, type |-> error_type, code |-> code,
   text |-> text, exc |-> exc, body |-> None]

convert_assemblyai_to_openai_response(text, response_format) ==
  [status |-> 200, type |-> None, code |-> None, text |-> "", exc |-> <<>>,
   body |-> IF response_format = "text" THEN text ELSE "{text: " \o text \o "}"]

NoResponse ==
  [status |-> 0, type |-> None, code |-> None, text |-> "", exc |-> <<>>,
   body |-> None]

NoFailure == [kind |-> "none", step |-> "none", msg |-> <<>>]

(* ----------------- the error responses of app/main.py ------------------ *)
MissingAuthorization ==
  format_openai_error(401, "No authorization header provided", <<>>,
                      "invalid_request_error", "missing_authorization")

InvalidAuthorization ==
  format_openai_error(401, "Invalid authorization header format", <<>>,
                      "invalid_request_error", "invalid_authorization")

MissingApiKey ==
  format_openai_error(500, "AssemblyAI API key not configured", <<>>,
                      "api_error", "missing_api_key")

\* mutant: the upload failure is reported as an internal error
UploadFailedAsInternal(e) ==
  format_openai_error(500, "Internal server error", <<>>, "api_error", None)

UploadFailed(e) ==
  format_openai_error(400, "Failed to upload file: ", e,
                      "invalid_request_error", "file_upload_failed")

InvalidAudioUrl ==
  format_openai_error(400, "Invalid audio URL format or unsupported audio type",
                      <<>>, "invalid_request_error", "invalid_audio_url")

\* mutant: the missing audio source is reported under the code of a bad URL
MissingAudioInputWrongCode ==
  format_openai_error(400, "Either 'file' or 'audio_url' parameter is required",
                      <<>>, "invalid_request_error", "invalid_audio_url")

MissingAudioInput ==
  format_openai_error(400, "Either 'file' or 'audio_url' parameter is required",
                      <<>>, "invalid_request_error", "missing_audio_input")

InvalidModel ==
  format_openai_error(400, "Invalid model. Valid AssemblyAI speech models are: best, slam-1, universal",
                      <<>>, "invalid_request_error", "invalid_model")

\* mutant: the outer boundary echoes the text of the failure
OuterBoundaryEchoing(e) ==
  format_openai_error(500, "Internal server error: ", e, "api_error", None)

\* the except Exception clause around the whole handler
OuterBoundary(e) ==
  format_openai_error(500, "Internal server error", <<>>, "api_error", None)

\* mutant: "unauthorized" is looked for before "timeout"
ClassifyErrorAuthFirst(error_msg) ==
  IF In(<<"u", "n", "a", "u", "t", "h", "o", "r", "i", "z", "e", "d">>,
        Lower(error_msg))
  THEN format_openai_error(401, "", error_msg, "authentication_error",
                           "invalid_api_key")
  ELSE IF In(<<"t", "i", "m", "e", "o", "u", "t">>, Lower(error_msg))
  THEN format_openai_error(408, "", error_msg, "timeout_error",
                           "transcription_timeout")
  ELSE IF \/ In(<<"i", "n", "v", "a", "l", "i", "d">>, Lower(error_msg))
          \/ In(<<"b", "a", "d", " ", "r", "e", "q", "u", "e", "s", "t">>,
                Lower(error_msg))
  THEN format_openai_error(400, "", error_msg, "invalid_request_error",
                           "invalid_audio")
  ELSE IF In(<<"n", "o", "t", " ", "f", "o", "u", "n", "d">>, Lower(error_msg))
  THEN format_openai_error(404, "", error_msg, "not_found_error",
                           "audio_not_found")
  ELSE format_openai_error(500, "", error_msg, "api_error",
                           "transcription_failed")

\* the except clause around client.transcribe
ClassifyError(error_msg) ==
  IF In(<<"t", "i", "m", "e", "o", "u", "t">>, Lower(error_msg))
  THEN format_openai_error(408, "", error_msg, "timeout_error",
                           "transcription_timeout")
  ELSE IF \/ In(<<"i", "n", "v", "a", "l", "i", "d">>, Lower(error_msg))
          \/ In(<<"b", "a", "d", " ", "r", "e", "q", "u", "e", "s", "t">>,
                Lower(error_msg))
  THEN format_openai_error(400, "", error_msg, "invalid_request_error",
                           "invalid_audio")
  ELSE IF In(<<"u", "n", "a", "u", "t", "h", "o", "r", "i", "z", "e", "d">>,
             Lower(error_msg))
  THEN format_openai_error(401, "", error_msg, "authentication_error",
                           "invalid_api_key")
  ELSE IF In(<<"n", "o", "t", " ", "f", "o", "u", "n", "d">>, Lower(error_msg))
  THEN format_openai_error(404, "", error_msg, "not_found_error",
                           "audio_not_found")
  ELSE format_openai_error(500, "", error_msg, "api_error",
                           "transcription_failed")

(* ------------------------ pieces of the handler ------------------------ *)
\* mutant: the "Bearer " prefix is not removed
ExtractApiKeyKeepsPrefix(auth_header) == auth_header

\* the credential taken from the Authorization header
ExtractApiKey(auth_header) ==
  IF StartsWith(auth_header, BearerPrefix)
  THEN SliceFrom(auth_header, 7)
  ELSE auth_header

\* mutant: the model is refused only when no identifier was supplied
ModelRejectedWhenAbsent(model, mapped) == ~Truthy(model) /\ mapped = None

\* the condition under which the model parameter is refused
ModelRejected(model, mapped) == Truthy(model) /\ mapped = None

\* the default parameters of the outbound request
BaseParams(audio, language_code, mapped, word_boost, speaker_diarization) ==
  [k \in {"audio_url", "language_code", "speech_model", "word_boost",
          "speaker_labels", "punctuate", "format_text"} |->
     CASE k = "audio_url" -> audio
       [] k = "language_code" -> language_code
       [] k = "speech_model" -> mapped
       [] k = "word_boost" -> word_boost
       [] k = "speaker_labels" -> speaker_diarization
       [] OTHER -> "true"]

\* mutant: the defaults win over the configuration
MergedParamsDefaultsWin(base, config) ==
  LET merged == [k \in DOMAIN base \cup DOMAIN config |->
                   IF k \in DOMAIN base THEN base[k] ELSE config[k]]
  IN  [k \in {x \in DOMAIN merged : merged[x] # None} |-> merged[k]]

\* {**base_params, **config_dict} without the None values
MergedParams(base, config) ==
  LET merged == [k \in DOMAIN base \cup DOMAIN config |->
                   IF k \in DOMAIN config THEN config[k] ELSE base[k]]
  IN  [k \in {x \in DOMAIN merged : merged[x] # None} |-> merged[k]]

\* the handler ends with this response
Finish(resp, fail) ==
  /\ pc' = "done"
  /\ response' = resp
  /\ failure' = fail

Failed(kind, step, msg) == [kind |-> kind, step |-> step, msg |-> msg]

(* ------------------------------ behaviour ------------------------------ *)
Init ==
  /\ pc = "idle"
  /\ req = NoRequest
  /\ api_key = NoneSeq
  /\ client = FALSE
  /\ final_audio_url = None
  /\ config_dict = <<>>
  /\ speech_model = None
  /\ base_params = <<>>
  /\ assemblyai_request = <<>>
  /\ calls = <<>>
  /\ ran = {}
  /\ failure = NoFailure
  /\ response = NoResponse

\* a request arrives at POST /v1/audio/transcriptions
Receive ==
  /\ pc = "idle"
  /\ \E r \in Requests : req' = r
  /\ pc' = "auth"
  /\ UNCHANGED <<api_key, client, final_audio_url, config_dict, speech_model,
                 base_params, assemblyai_request, calls, ran, failure, response>>

\* the credential is taken from the Authorization header and checked
CheckAuthorization ==
  /\ pc = "auth"
  /\ IF ~TruthySeq(req.auth_header)
     THEN /\ Finish(MissingAuthorization, NoFailure)
          /\ UNCHANGED api_key
     ELSE /\ api_key' = ExtractApiKey(req.auth_header)
          /\ IF ~TruthySeq(api_key')
             THEN Finish(InvalidAuthorization, NoFailure)
             ELSE /\ pc' = "source"
                  /\ UNCHANGED <<response, failure>>
  /\ UNCHANGED <<req, client, final_audio_url, config_dict, speech_model,
                 base_params, assemblyai_request, calls, ran>>

\* the audio source is chosen: file, then audio_url, else an input error
SelectAudioSource ==
  /\ pc = "source"
  /\ IF req.file # None
     THEN \* AssemblyAIClient(api_key=api_key)
          /\ \E o \in {"ok", "ValueError", "raise"} :
               CASE o = "ok" ->
                      /\ client' = TRUE
                      /\ pc' = "upload"
                      /\ UNCHANGED <<response, failure>>
                 [] o = "ValueError" ->
                      /\ Finish(MissingApiKey, Failed("ValueError", "client", Boom))
                      /\ UNCHANGED client
                 [] OTHER ->
                      /\ Finish(OuterBoundary(Boom), Failed("unexpected", "client", Boom))
                      /\ UNCHANGED client
          /\ UNCHANGED <<final_audio_url, ran>>
     ELSE IF Truthy(req.audio_url)
     THEN /\ ran' = ran \cup {"validate_audio_url"}
          /\ \E o \in {"ok", "raise"} :
               IF o = "raise"
               THEN /\ Finish(OuterBoundary(Boom),
                              Failed("unexpected", "validate_audio_url", Boom))
                    /\ UNCHANGED final_audio_url
               ELSE IF ~validate_audio_url(req.audio_url)
               THEN /\ Finish(InvalidAudioUrl, NoFailure)
                    /\ UNCHANGED final_audio_url
               ELSE /\ final_audio_url' = req.audio_url
                    /\ pc' = "parse"
                    /\ UNCHANGED <<response, failure>>
          /\ UNCHANGED client
     ELSE /\ Finish(MissingAudioInput, NoFailure)
          /\ UNCHANGED <<client, final_audio_url, ran>>
  /\ UNCHANGED <<req, api_key, config_dict, speech_model, base_params,
                 assemblyai_request, calls>>

\* mutant: a failed upload is tried again
UploadFileRetrying ==
  /\ pc = "upload"
  /\ \E o \in {"ok", "read fails", "upload fails"} :
       CASE o = "read fails" ->
              /\ Finish(UploadFailed(Boom), Failed("upload", "file.read", Boom))
              /\ UNCHANGED <<calls, final_audio_url>>
         [] o = "upload fails" ->
              /\ Len(calls) < 2
              /\ calls' = Append(calls, "upload_file")
              /\ UNCHANGED <<pc, response, failure, final_audio_url>>
         [] OTHER ->
              /\ calls' = Append(calls, "upload_file")
              /\ final_audio_url' = "https://cdn.example/upload/" \o req.file
              /\ pc' = "parse"
              /\ UNCHANGED <<response, failure>>
  /\ UNCHANGED <<req, api_key, client, config_dict, speech_model, base_params,
                 assemblyai_request, ran>>

\* file.read() and client.upload_file
UploadFile ==
  /\ pc = "upload"
  /\ \E o \in {"ok", "read fails", "upload fails"} :
       CASE o = "read fails" ->
              /\ Finish(UploadFailed(Boom), Failed("upload", "file.read", Boom))
              /\ UNCHANGED <<calls, final_audio_url>>
         [] o = "upload fails" ->
              /\ calls' = Append(calls, "upload_file")
              /\ Finish(UploadFailed(Boom), Failed("upload", "upload_file", Boom))
              /\ UNCHANGED final_audio_url
         [] OTHER ->
              /\ calls' = Append(calls, "upload_file")
              /\ final_audio_url' = "https://cdn.example/upload/" \o req.file
              /\ pc' = "parse"
              /\ UNCHANGED <<response, failure>>
  /\ UNCHANGED <<req, api_key, client, config_dict, speech_model, base_params,
                 assemblyai_request, ran>>

\* the utilities called up to and including the one named
CalledUpTo(last) ==
  CASE last = "parse_prompt_for_config" -> {"parse_prompt_for_config"}
    [] last = "map_language_code" ->
         {"parse_prompt_for_config", "map_language_code"}
    [] last = "map_openai_model_to_speech_model" ->
         {"parse_prompt_for_config", "map_language_code",
          "map_openai_model_to_speech_model"}
    [] OTHER ->
         {"parse_prompt_for_config", "map_language_code",
          "map_openai_model_to_speech_model", "parse_word_boost"}

\* the prompt is parsed, the parameters are mapped, the model is checked and
\* the default parameters are put together
ParseAndMap ==
  /\ pc = "parse"
  /\ \/ /\ ran' = ran \cup CalledUpTo("parse_prompt_for_config")
        /\ Finish(OuterBoundary(Boom),
                  Failed("unexpected", "parse_prompt_for_config", Boom))
        /\ UNCHANGED <<config_dict, speech_model, base_params>>
     \/ \E parsed \in parse_prompt_for_config(req.prompt) :
          /\ config_dict' = parsed[1]
          /\ \/ \E f \in {"map_language_code",
                          "map_openai_model_to_speech_model"} :
                  /\ ran' = ran \cup CalledUpTo(f)
                  /\ Finish(OuterBoundary(Boom), Failed("unexpected", f, Boom))
                  /\ UNCHANGED <<speech_model, base_params>>
             \/ \E mapped \in map_openai_model_to_speech_model(req.model) :
                  /\ speech_model' = mapped
                  /\ ran' = ran \cup CalledUpTo("parse_word_boost")
                  /\ \/ /\ Finish(OuterBoundary(Boom),
                                  Failed("unexpected", "parse_word_boost", Boom))
                        /\ UNCHANGED base_params
                     \/ LET cleaned_prompt == parsed[2]
                            speaker_diarization ==
                              Get(parsed[1], "speaker_labels", "false")
                            language_code == map_language_code(req.language)
                            word_boost == parse_word_boost(cleaned_prompt)
                        IN  IF ModelRejected(req.model, mapped)
                            THEN /\ Finish(InvalidModel, NoFailure)
                                 /\ UNCHANGED base_params
                            ELSE /\ base_params' =
                                      BaseParams(final_audio_url, language_code,
                                                 mapped, word_boost,
                                                 speaker_diarization)
                                 /\ pc' = "build"
                                 /\ UNCHANGED <<response, failure>>
  /\ UNCHANGED <<req, api_key, client, final_audio_url, assemblyai_request,
                 calls>>

\* the parameters are merged, the outbound request is constructed and, for a
\* request without a file, the client is initialised
BuildRequest ==
  /\ pc = "build"
  /\ \E o \in {"ok", "request raises", "ValueError", "client raises"} :
       CASE o = "request raises" ->
              /\ Finish(OuterBoundary(Boom),
                        Failed("unexpected", "AssemblyAITranscriptionRequest", Boom))
              /\ UNCHANGED <<assemblyai_request, client, ran>>
         [] o = "ValueError" /\ req.file = None ->
              /\ assemblyai_request' = MergedParams(base_params, config_dict)
              /\ ran' = ran \cup {"AssemblyAITranscriptionRequest"}
              /\ Finish(MissingApiKey, Failed("ValueError", "client", Boom))
              /\ UNCHANGED client
         [] o = "client raises" /\ req.file = None ->
              /\ assemblyai_request' = MergedParams(base_params, config_dict)
              /\ ran' = ran \cup {"AssemblyAITranscriptionRequest"}
              /\ Finish(OuterBoundary(Boom), Failed("unexpected", "client", Boom))
              /\ UNCHANGED client
         [] OTHER ->
              /\ assemblyai_request' = MergedParams(base_params, config_dict)
              /\ ran' = ran \cup {"AssemblyAITranscriptionRequest"}
              /\ client' = TRUE
              /\ pc' = "transcribe"
              /\ UNCHANGED <<response, failure>>
  /\ UNCHANGED <<req, api_key, final_audio_url, config_dict, speech_model,
                 base_params, calls>>

\* client.transcribe(assemblyai_request) and the classification of its failure
Transcribe ==
  /\ pc = "transcribe"
  /\ client
  /\ calls' = Append(calls, "transcribe")
  /\ \/ /\ pc' = "respond"
        /\ UNCHANGED <<response, failure>>
     \/ \E error_msg \in ProviderMessages :
          Finish(ClassifyError(error_msg),
                 Failed("transcribe", "transcribe", error_msg))
  /\ UNCHANGED <<req, api_key, client, final_audio_url, config_dict,
                 speech_model, base_params, assemblyai_request, ran>>

\* the provider's result is converted and returned
Respond ==
  /\ pc = "respond"
  /\ ran' = ran \cup {"convert_assemblyai_to_openai_response"}
  /\ \/ Finish(convert_assemblyai_to_openai_response("hello", req.response_format),
               NoFailure)
     \/ Finish(OuterBoundary(Boom),
               Failed("unexpected", "convert_assemblyai_to_openai_response", Boom))
  /\ UNCHANGED <<req, api_key, client, final_audio_url, config_dict,
                 speech_model, base_params, assemblyai_request, calls>>

Next ==
  \/ Receive
  \/ CheckAuthorization
  \/ SelectAudioSource
  \/ UploadFile
  \/ ParseAndMap
  \/ BuildRequest
  \/ Transcribe
  \/ Respond

Spec == Init /\ [][Next]_vars

(* ------------------------------ properties ----------------------------- *)
TypeOK ==
  /\ pc \in {"idle", "auth", "source", "upload", "parse", "build",
             "transcribe", "respond", "done"}
  /\ Len(calls) <= 2

ResponseIs(status, error_type, code) ==
  /\ response.status = status
  /\ response.type = error_type
  /\ response.code = code

Called(name) == \E i \in 1..Len(calls) : calls[i] = name

TimesCalled(name) == Cardinality({i \in 1..Len(calls) : calls[i] = name})

\* the mapper has returned (it ran and is not the step that failed)
MapperReturned ==
  /\ "map_openai_model_to_speech_model" \in ran
  /\ failure.step # "map_openai_model_to_speech_model"

\* the handler has come to the model check of line 199
ModelCheckReached ==
  /\ "parse_word_boost" \in ran
  /\ failure.step # "parse_word_boost"

\* the request carries a credential that is not empty
ValidCredential ==
  req.auth_header \in {BearerPrefix \o KeyText, KeyText}

(* C1, as claimed: when a non-empty model identifier is supplied, the mapper
   returns None and the handler comes to the model check, the request ends
   with 400 invalid_model and no provider-client call (upload_file or
   transcribe) has been made, whether the audio source is a file or a URL. *)
C1_NoProviderCallAtAll ==
  (pc = "done" /\ ModelCheckReached /\ Truthy(req.model) /\ speech_model = None)
    => /\ ResponseIs(400, "invalid_request_error", "invalid_model")
       /\ calls = <<>>

(* C1, amended: when a non-empty model identifier is supplied and the mapper
   returns None, the handler goes no further than the model check and
   transcribe is never called; once the check is reached the request ends
   with 400 invalid_model.  A URL request has then made no provider-client
   call; a file request has made exactly its upload_file call, which
   precedes the model check. *)
C1_InvalidModelStopsBeforeTranscribe ==
  (MapperReturned /\ Truthy(req.model) /\ speech_model = None)
    => /\ pc = "done"
       /\ ~Called("transcribe")
       /\ ModelCheckReached =>
            /\ ResponseIs(400, "invalid_request_error", "invalid_model")
            /\ req.file = None => calls = <<>>
            /\ req.file # None => calls = <<"upload_file">>

C1_Witness ==
  /\ pc = "done"
  /\ ModelCheckReached
  /\ req.model = "invalid-model-xyz"
  /\ speech_model = None
  /\ req.file # None
  /\ calls = <<"upload_file">>
  /\ response.code = "invalid_model"

(* C2, as claimed: a request that supplies both an uploaded file and an
   audio_url is rejected as an input error and never reaches transcribe. *)
C2_BothSourcesRejected ==
  (req.file # None /\ Truthy(req.audio_url))
    => /\ ~Called("transcribe")
       /\ response.status # 200

(* C3, as claimed: a request without Authorization header ends with 401,
   type authentication_error, code missing_authorization; a request whose
   credential is empty after the "Bearer " prefix is removed ends with 401,
   type authentication_error, code invalid_authorization; neither makes an
   upload or transcribe call. *)
C3_CredentialErrors ==
  pc = "done" =>
    /\ req.auth_header = NoneSeq =>
         /\ ResponseIs(401, "authentication_error", "missing_authorization")
         /\ calls = <<>>
    /\ req.auth_header = BearerPrefix =>
         /\ ResponseIs(401, "authentication_error", "invalid_authorization")
         /\ calls = <<>>

\* the keyword occurs in the message, whatever the case of the letters
Mentions(msg, keyword) ==
  \E i \in 0..(Len(msg) - Len(keyword)) :
    \A j \in 1..Len(keyword) : LowerChar(msg[i + j]) = keyword[j]

(* C4: when client.transcribe raises, the response is decided by the first
   of timeout, invalid / bad request, unauthorized, not found that the
   message mentions in any letter case, and is the generic 500 when it
   mentions none: (408, timeout_error, transcription_timeout), (400,
   invalid_request_error, invalid_audio), (401, authentication_error,
   invalid_api_key), (404, not_found_error, audio_not_found), (500,
   api_error, transcription_failed). *)
C4_ClassificationPriority ==
  (pc = "done" /\ failure.kind = "transcribe") =>
    LET m == failure.msg
        timeout == Mentions(m, <<"t", "i", "m", "e", "o", "u", "t">>)
        invalid ==
          \/ Mentions(m, <<"i", "n", "v", "a", "l", "i", "d">>)
          \/ Mentions(m, <<"b", "a", "d", " ", "r", "e", "q", "u", "e", "s", "t">>)
        unauthorized ==
          Mentions(m, <<"u", "n", "a", "u", "t", "h", "o", "r", "i", "z", "e", "d">>)
        notfound == Mentions(m, <<"n", "o", "t", " ", "f", "o", "u", "n", "d">>)
    IN  /\ timeout =>
             ResponseIs(408, "timeout_error", "transcription_timeout")
        /\ (~timeout /\ invalid) =>
             ResponseIs(400, "invalid_request_error", "invalid_audio")
        /\ (~timeout /\ ~invalid /\ unauthorized) =>
             ResponseIs(401, "authentication_error", "invalid_api_key")
        /\ (~timeout /\ ~invalid /\ ~unauthorized /\ notfound) =>
             ResponseIs(404, "not_found_error", "audio_not_found")
        /\ (~timeout /\ ~invalid /\ ~unauthorized /\ ~notfound) =>
             ResponseIs(500, "api_error", "transcription_failed")

\* the provider raised "Timeout while unauthorized"
C4_Witness ==
  /\ pc = "done"
  /\ failure.kind = "transcribe"
  /\ failure.msg =
       <<"T", "i", "m", "e", "o", "u", "t", " ", "w", "h", "i", "l", "e", " ",
         "u", "n", "a", "u", "t", "h", "o", "r", "i", "z", "e", "d">>
  /\ ResponseIs(408, "timeout_error", "transcription_timeout")

DefaultKeys ==
  {"audio_url", "language_code", "speech_model", "word_boost",
   "speaker_labels", "punctuate", "format_text"}

(* C5: in the outbound request every key the configuration specifies has
   the configuration's value, every other key has the default's value, and
   a key whose merged value is None is absent from the request. *)
C5_MergePrecedenceAndNullDrop ==
  "AssemblyAITranscriptionRequest" \in ran =>
    /\ DOMAIN base_params = DefaultKeys
    /\ DOMAIN assemblyai_request \subseteq DefaultKeys \cup DOMAIN config_dict
    /\ \A k \in DefaultKeys \cup DOMAIN config_dict :
         LET merged == IF k \in DOMAIN config_dict THEN config_dict[k]
                       ELSE base_params[k]
         IN  IF merged = None
             THEN k \notin DOMAIN assemblyai_request
             ELSE /\ k \in DOMAIN assemblyai_request
                  /\ assemblyai_request[k] = merged
    /\ \A k \in DOMAIN assemblyai_request : assemblyai_request[k] # None

\* a configuration None overrides a default that is not None, and a
\* configuration value overrides the resolved audio URL
C5_Witness ==
  /\ "AssemblyAITranscriptionRequest" \in ran
  /\ "speech_model" \in DOMAIN config_dict
  /\ config_dict["speech_model"] = None
  /\ base_params["speech_model"] = "best"
  /\ "speech_model" \notin DOMAIN assemblyai_request
  /\ "audio_url" \in DOMAIN config_dict
  /\ config_dict["audio_url"] # None
  /\ assemblyai_request["audio_url"] = config_dict["audio_url"]
  /\ assemblyai_request["audio_url"] # base_params["audio_url"]

(* C6: a request makes at most one upload_file call and at most one
   transcribe call; when it makes both, the upload has returned its URL
   before transcribe is called and that URL is the default audio_url of the
   outbound request. *)
C6_AtMostOneCallEachInOrder ==
  /\ TimesCalled("upload_file") <= 1
  /\ TimesCalled("transcribe") <= 1
  /\ (Called("upload_file") /\ Called("transcribe")) =>
       /\ calls = <<"upload_file", "transcribe">>
       /\ failure.kind # "upload"
       /\ final_audio_url = "https://cdn.example/upload/" \o req.file
       /\ base_params["audio_url"] = final_audio_url

C6_Witness ==
  /\ calls = <<"upload_file", "transcribe">>
  /\ base_params["audio_url"] = "https://cdn.example/upload/a.mp3"

(* C7: a failure that is none of the handler's own validation, upload or
   provider errors ends the request with 500, type api_error, no code and
   the fixed message "Internal server error" without the failure's text;
   every finished request carries a formatted response. *)
C7_OuterBoundaryIsGeneric ==
  pc = "done" =>
    /\ response.status \in {200, 400, 401, 404, 408, 500}
    /\ failure.kind = "unexpected" =>
         /\ ResponseIs(500, "api_error", None)
         /\ response.text = "Internal server error"
         /\ response.exc = <<>>

C7_Witness ==
  /\ pc = "done"
  /\ failure.kind = "unexpected"
  /\ failure.step = "AssemblyAITranscriptionRequest"
  /\ failure.msg # <<>>
  /\ response.status = 500

(* C8: a request with a valid credential, no file and no audio_url ends
   with 400, type invalid_request_error, code missing_audio_input, having
   made no provider-client call and run neither the prompt parser nor a
   parameter mapper. *)
C8_MissingAudioInput ==
  (pc = "done" /\ ValidCredential /\ req.file = None /\ ~Truthy(req.audio_url))
    => /\ ResponseIs(400, "invalid_request_error", "missing_audio_input")
       /\ calls = <<>>
       /\ ran = {}
       /\ ~client

C8_Witness ==
  /\ pc = "done"
  /\ req.auth_header = BearerPrefix \o KeyText
  /\ req.file = None
  /\ req.audio_url = None
  /\ response.code = "missing_audio_input"

(* C9: when reading the file or client.upload_file fails, the request ends
   at once with 400, type invalid_request_error, code file_upload_failed,
   and transcribe is not called. *)
C9_UploadFailureIsTerminal ==
  failure.kind = "upload" =>
    /\ pc = "done"
    /\ ResponseIs(400, "invalid_request_error", "file_upload_failed")
    /\ ~Called("transcribe")
    /\ "parse_prompt_for_config" \notin ran

C9_Witness ==
  /\ pc = "done"
  /\ failure.kind = "upload"
  /\ failure.step = "upload_file"
  /\ calls = <<"upload_file">>
  /\ response.status = 400

(* C10: transcribe is called only with a non-empty credential, a resolved
   audio URL (an upload that returned, or an audio_url the validator
   accepted) and a passed model check; the checks run in the order
   credential, audio source, model, so the earliest failing check decides
   the error; a 200 response follows a transcribe call that returned. *)
C10_GuardsAndCheckOrder ==
  /\ Called("transcribe") =>
       /\ TruthySeq(api_key)
       /\ ValidCredential
       /\ final_audio_url # None
       /\ \/ Called("upload_file") /\ req.file # None
          \/ /\ final_audio_url = req.audio_url
             /\ req.audio_url = GoodUrl
             /\ "validate_audio_url" \in ran
       /\ MapperReturned
       /\ ~(Truthy(req.model) /\ speech_model = None)
  /\ pc = "done" =>
       /\ req.auth_header \in {NoneSeq, <<>>} =>
            response.code = "missing_authorization"
       /\ req.auth_header = BearerPrefix =>
            response.code = "invalid_authorization"
       /\ (ValidCredential /\ req.file = None /\ ~Truthy(req.audio_url)) =>
            response.code = "missing_audio_input"
       /\ (ValidCredential /\ req.file = None /\ req.audio_url = BadUrl
           /\ failure = NoFailure) =>
            response.code = "invalid_audio_url"
       /\ response.code \in {"missing_audio_input", "invalid_audio_url",
                             "file_upload_failed"} => ValidCredential
       /\ response.code = "invalid_model" =>
            ValidCredential /\ final_audio_url # None
  /\ response.status = 200 =>
       /\ pc = "done"
       /\ calls # <<>>
       /\ calls[Len(calls)] = "transcribe"
       /\ failure = NoFailure

\* a request with no credential, no audio source and an unknown model
C10_Witness ==
  /\ pc = "done"
  /\ req.auth_header = NoneSeq
  /\ req.file = None
  /\ req.audio_url = None
  /\ req.model = "invalid-model-xyz"
  /\ response.code = "missing_authorization"

====
